---------------------------- MODULE Spec2Model ----------------------------
(***************************************************************************)
(* Model of the periodic scheduler (controller/thread_manager.py) and of   *)
(* the collection cycle with its bounded history                           *)
(* (controller/app_controller.py, model/system_data.py).                   *)
(*                                                                         *)
(* Thread objects are numbered 1..MaxThreads in creation order; the        *)
(* threading.Event created together with thread t carries the same number. *)
(* A reading is identified by the number of the get_all_metrics() call     *)
(* that produced it (its 'timestamp').                                     *)
(***************************************************************************)
EXTENDS Integers, Sequences, FiniteSets, TLC

\* ------------------------------------------------------------------ bounds
\* Thread objects created in one run.
MaxThreads == 3
\* get_all_metrics() calls in one run.
MaxCycles == 4
\* AppController.HISTORY_DURATION, scaled down from 3600 s so that the
\* history fills within MaxCycles cycles.
HISTORY_DURATION == 4

\* --------------------------------------------------------------- constants
\* AppController.UPDATE_INTERVAL, int(2.0)
UPDATE_INTERVAL == 2
\* AppController.MAX_HISTORY_ENTRIES
MAX_HISTORY_ENTRIES == HISTORY_DURATION \div UPDATE_INTERVAL

\* Task names: the one AppController uses and one other client of the manager.
Names == {"system_monitor", "aux"}
\* Callers of the ThreadManager API (the main/GUI thread and one more).
Callers == {"c1", "c2"}
\* The metric groups queried by SystemData.get_all_metrics, in call order.
Groups == <<"cpu", "ram", "storage", "network">>
GroupSet == {Groups[i] : i \in 1..Len(Groups)}

Threads == 1..MaxThreads

VARIABLES
    threads,          \* ThreadManager._threads: name -> thread (0: no key)
    stop_events,      \* ThreadManager._stop_events: name -> event (0: no key)
    korder,           \* insertion order of the keys of _threads
    lock,             \* ThreadManager._lock: "free" or the caller holding it
    nthreads,         \* thread objects created so far
    tname,            \* Thread.name of each thread object
    tcb,              \* the callback passed to each thread
    tpc,              \* position of each worker in _collection_worker
    event,            \* event[t]: the Event made for thread t is set
    caller,           \* each caller's position and the locals of its call
    ret,              \* the call that returned in the last step, if any
    metrics_history,  \* AppController._metrics_history (deque)
    maxlen,           \* the maxlen the deque was constructed with
    current_metrics,  \* AppController._current_metrics
    view_callback,    \* AppController._view_callback is set
    cycle,            \* get_all_metrics() calls made so far
    cyc,              \* what the cycle in progress (or last finished) did
    notified,         \* readings handed to the presentation layer, in order
    appended,         \* every entry ever appended to the history, in order
    ctl,              \* the control surfaces: hardware settings and last call
    config,           \* the config module and the start of the GUI program
    is_monitoring,    \* AppController._is_monitoring
    kbd,              \* the keyboard-backlight slider and its apply timer
    proc              \* the process table's kill handler and its last call

vars == <<threads, stop_events, korder, lock, nthreads, tname, tcb, tpc, event,
          caller, ret, metrics_history, maxlen, current_metrics, view_callback, cycle,
          cyc, notified, appended, ctl, config, is_monitoring, kbd, proc>>

tmVars == <<threads, stop_events, korder, lock, nthreads, tname, tcb, event>>
acVars == <<metrics_history, maxlen, current_metrics, view_callback, cycle,
            cyc, notified, appended>>
\* What the ThreadManager and the collection cycle never touch.
uiVars == <<ctl, config, is_monitoring, kbd, proc>>

\* ---------------------------------------------------------------- helpers
\* Thread.is_alive(): started and run() not yet returned.
IsAlive(t) == t # 0 /\ tpc[t] \notin {"unborn", "done"}

\* The positions inside callback(): thread_manager.py line 86 in progress.
CallbackPcs == {"callback", "um_query", "um_stamp", "um_append", "um_notify"}
InCallback(t) == tpc[t] \in CallbackPcs

\* ret, when no call ended in the last step.  Otherwise op is the call that
\* ended ("start", "stop", "stop_all", "callback" for a worker's callback
\* invocation, "get_metrics_history", "is_thread_running",
\* "get_active_threads"), by the caller or "worker", name and thr the task and thread
\* concerned, val the value returned (for a callback: FALSE if it raised),
\* timedout and sig as in the caller's locals, list the list returned by
\* get_metrics_history or get_active_threads, exc the place where an
\* exception was raised inside the call ("none" if nowhere).  all says that
\* stop_all_threads returned in this step too, n0 and anyto being its
\* locals then.  outer is the AppController call that returned in this step
\* ("start_monitoring", "stop_monitoring", "cleanup", or "signal_handler"
\* for the cleanup() of main.py's signal handler).
NoRet == [op |-> "none", by |-> "none", name |-> "none", thr |-> 0,
          val |-> FALSE, timedout |-> FALSE, sig |-> "none", list |-> <<>>,
          exc |-> "none", all |-> FALSE, n0 |-> 0, anyto |-> FALSE,
          outer |-> "none"]

Ret(op, by, name, thr, val) ==
    [NoRet EXCEPT !.op = op, !.by = by, !.name = name, !.thr = thr,
                  !.val = val]

NoCycle == [id |-> 0, failed |-> "none", appended |-> FALSE,
            notified |-> FALSE, done |-> FALSE]

\* _current_metrics = None
NoMetrics == [id |-> 0, cpu |-> "none", ram |-> "none", storage |-> "none",
              network |-> "none", read_time |-> FALSE]

\* A caller outside every ThreadManager call.  In a call: pc is its
\* position, op the API operation, arg and cb that operation's thread_name
\* and callback, thr the local `thread` of stop_thread, names what
\* stop_all_threads has still to stop, timedout whether join timed out, sig
\* the position of the worker when this call set its stop event, n0 the
\* number of threads created before stop_all_threads was called (a thread
\* alive at the call is one of them), anyto whether a
\* join of an earlier name of stop_all_threads timed out, mutated whether
\* the deque was appended to since list() began to iterate over it, outer
\* the AppController call that made this ThreadManager call, started the
\* `success` of start_monitoring.
Idle == [pc |-> "idle", op |-> "none", arg |-> "none", cb |-> "none",
         thr |-> 0, names |-> <<>>, timedout |-> FALSE, sig |-> "none",
         n0 |-> 0, anyto |-> FALSE, mutated |-> FALSE, outer |-> "none",
         started |-> FALSE]


\* An append that evicts only once the deque is over its maxlen.
DequeAppendLate(h, x) == IF Len(h) > maxlen
                         THEN Append(Tail(h), x)
                         ELSE Append(h, x)

\* An append that drops the new item when the deque is full.
DequeAppendKeepOld(h, x) == IF Len(h) >= maxlen THEN h ELSE Append(h, x)

\* deque.append(x) on a deque h built with maxlen: a full deque drops its
\* leftmost item.
DequeAppend(h, x) == IF Len(h) >= maxlen
                     THEN Append(Tail(h), x)
                     ELSE Append(h, x)

\* list(d): the items of the deque, left to right.
ListOf(d) == [i \in 1..Len(d) |-> d[i]]

\* ------------------------------------------------------- control surfaces
\* The control surfaces (model/sensors.py, model/power_manager.py,
\* model/msi_ec_manager.py, model/app_profiles.py).  A call is a function of
\* its arguments and of what the operating system does with the writes:
\*   w      what open(path, "w") and write() do to a sysfs file,
\*   cs     PowerManager.cpu_paths, the cpufreq directories found by glob,
\*   ok     the CPUs whose file _safe_write_str manages to write,
\*   avail  the values read from the file listing the supported ones
\*          (empty when it cannot be read),
\*   pk     use_pkexec,
\*   h      what becomes of the pkexec helper.
Cpus == {"cpu0", "cpu1"}

WriteOutcomes == {"written", "denied", "missing", "ioerror"}

\* What becomes of MsiEcManager's helper when use_pkexec is pk: the helper
\* is missing, pkexec is missing, subprocess.run times out (a
\* SubprocessError), subprocess.run fails to start the process (an
\* OSError), or the helper runs; wrote says whether its own write succeeds.
\* With use_pkexec off no helper is run.
HelperOf(pk) ==
    IF pk
    THEN {[launch |-> l, wrote |-> FALSE] :
            l \in {"no_helper", "no_pkexec", "timeout", "oserror"}}
         \cup {[launch |-> "ran", wrote |-> b] : b \in BOOLEAN}
    ELSE {[launch |-> "no_helper", wrote |-> FALSE]}

\* What becomes of PowerManager's helper: as above, cpus being the CPUs
\* whose file scripts/power_helper.py manages to write when it runs (it
\* globs the cpufreq directories itself, lines 17 and 35).
PowerHelperOf(pk) ==
    IF pk
    THEN {[launch |-> l, cpus |-> {}] :
            l \in {"no_helper", "no_pkexec", "timeout", "oserror"}}
         \cup {[launch |-> "ran", cpus |-> s] : s \in SUBSET Cpus}
    ELSE {[launch |-> "no_helper", cpus |-> {}]}

\* The files of /sys/devices/platform/msi-ec, of the keyboard backlight and
\* of BAT1 that MsiEcManager writes, by file name.
EcFiles == {"fan_mode", "shift_mode", "cooler_boost", "webcam",
            "webcam_block", "brightness", "charge_control_start_threshold",
            "charge_control_end_threshold"}

\* The hardware settings the control surfaces write, each the content of
\* its sysfs file: scaling_governor and scaling_max_freq of every CPU, the
\* pwm file, the EC files.  The program keeps no copy of them, and any
\* process may write them between two calls.
Factory == [gov |-> [c \in Cpus |-> "powersave"],
            freq |-> [c \in Cpus |-> "4"],
            pwm |-> "0",
            ec |-> [f \in EcFiles |-> "off"]]

\* What a call may find: the factory settings, or the settings left by an
\* earlier session.
HwBefore == {Factory,
             [gov |-> [c \in Cpus |-> "performance"],
              freq |-> [c \in Cpus |-> "2"],
              pwm |-> "128",
              ec |-> [f \in EcFiles |-> "on"]]}

\* The dict {"success": ..., "message": ...} a call returns.
Result(ok, msg) ==
    [kind |-> "returned", success |-> ok, message |-> msg]

\* A call that ends with exception e reaching its caller.
Raised(e) == [kind |-> "raised", success |-> FALSE, message |-> e]

\* ctl before any call.  After a call: op and arg are the call (for
\* set_governor arg holds the list of available governors the call read
\* too), pre the hardware settings it found, res its result, hw the
\* hardware settings it left, opts the options it passed to
\* msi_ec_helper.py, and again what the same call, issued once more at once
\* (same arguments, the operating system answering as before), returns and
\* leaves.
NoCtl == [op |-> "none", arg |-> "none", pre |-> Factory,
          res |-> Result(FALSE, "none"), hw |-> Factory, opts |-> <<>>,
          again |-> [res |-> Result(FALSE, "none"), hw |-> Factory]]

\* ------------------------------------------------------------------ config
\* A dict is a function from its keys.  Of config.py's DEFAULT_CONFIG (lines
\* 15-38) the model keeps two numbers and one nested dict, with the values
\* of the class constants of AppController, which the defaults repeat.
BuiltIn == [update_interval |-> UPDATE_INTERVAL,
            history_duration |-> HISTORY_DURATION,
            alerts |-> [cpu_warn |-> 85, cpu_crit |-> 95]]

\* The keys whose value is a dict, in the defaults and in config.json.
DictKeys == {"alerts"}

\* config.json: absent, not loadable as a dict (json.load raises, or the
\* document is not an object), or a dict d giving a history duration, alert
\* thresholds, both or neither.
NoFile == [kind |-> "absent", d |-> <<>>]

ConfigFiles ==
    LET durations == {10, 20}
        alerts == {<<>>, [cpu_warn |-> 50], [cpu_crit |-> 60],
                   [cpu_warn |-> 50, cpu_crit |-> 60]}
    IN  {NoFile, [kind |-> "unloadable", d |-> <<>>]}
        \cup {[kind |-> "dict", d |-> d] :
                d \in {<<>>}
                       \cup {[history_duration |-> n] : n \in durations}
                       \cup {[alerts |-> a] : a \in alerts}
                       \cup {[history_duration |-> n, alerts |-> a] :
                                n \in durations, a \in alerts}}

\* _deep_update, config.py lines 61-67: the dict target holds once it has
\* been updated with source.
RECURSIVE DeepUpdate(_, _)
DeepUpdate(target, source) ==
    [k \in DOMAIN target \cup DOMAIN source |->
        IF k \notin DOMAIN source THEN target[k]
        ELSE IF k \in DictKeys /\ k \in DOMAIN target
        THEN DeepUpdate(target[k], source[k])
        ELSE source[k]]

\* load_config, lines 45-58, DEFAULT_CONFIG holding defaults.  Line 47 copies
\* the top level only: the assignments of line 67 to top-level keys go to the
\* copy, while the recursion of line 65 updates target[key], which is the
\* very dict DEFAULT_CONFIG holds under that key.
load_config(defaults, file) ==
    IF file.kind # "dict"
    THEN [result |-> defaults, defaults |-> defaults]
    ELSE LET merged == DeepUpdate(defaults, file.d) IN
         [result |-> merged,
          defaults |-> [k \in DOMAIN defaults |->
                          IF k \in DictKeys /\ k \in DOMAIN file.d
                          THEN merged[k]
                          ELSE defaults[k]]]

\* AppController.__init__, app_controller.py line 39: `def __init__(self)`
\* accepts no argument, so a call with keyword arguments raises TypeError.
AppControllerInit(kwargs) == IF kwargs = {} THEN "constructed" ELSE "TypeError"

\* The config module as imported: DEFAULT_CONFIG, no load_config() made
\* (loads counts them, up to 2), gui_main.main() not yet at line 27.
NoConfig == [defaults |-> BuiltIn, file |-> NoFile, result |-> BuiltIn,
             loads |-> 0, gui |-> "none"]

\* ------------------------------------------------------- keyboard backlight
\* The slider's range, main_window.py line 248.
Levels == 0..3

\* The window as built (lines 247-255): slider is the slider's value, timer
\* whether the single-shot _kbd_apply_timer is running, sync the flag
\* _kbd_backlight_sync.  dirty says that the user has changed the slider
\* and set_keyboard_backlight has not been called since; by is the handler
\* that ran last ("user": a slider change by the user, "timer": the apply
\* timer's timeout, "button": the apply button, "refresh": _refresh_msi_ec),
\* call the level it passed to set_keyboard_backlight (-1: no call) and ok
\* whether that call reported success.
NoKbd == [slider |-> 0, timer |-> FALSE, sync |-> FALSE, dirty |-> FALSE,
          by |-> "none", call |-> -1, ok |-> FALSE]

\* _on_kbd_backlight_changed, lines 1025-1030: start(500) starts the timer
\* or, if it is running, restarts it.
OnKbdBacklightChanged(k) == IF k.sync THEN k ELSE [k EXCEPT !.timer = TRUE]

\* QSlider.setValue: valueChanged is emitted, and the slot of line 355 runs
\* before setValue returns, when the value changes.
SetValue(k, v) ==
    IF v = k.slider THEN k ELSE OnKbdBacklightChanged([k EXCEPT !.slider = v])

\* _apply_kbd_backlight, lines 1032-1041, res being what
\* set_keyboard_backlight(level) returned (or raised).
ApplyKbdBacklight(k, res) ==
    [k EXCEPT !.timer = FALSE, !.call = k.slider, !.dirty = FALSE,
              !.ok = res.kind = "returned" /\ res.success]

\* _refresh_msi_ec, lines 901-961, as far as the backlight goes.  available
\* is info.get("available"); cur is what int(get_keyboard_backlight() or 0)
\* gives, -1 when int() raises.
RefreshMsiEc(k, available, cur) ==
    IF ~available THEN [k EXCEPT !.timer = FALSE]
    ELSE LET k1 == [k EXCEPT !.timer = FALSE, !.sync = TRUE]
             k2 == IF cur = -1 THEN k1 ELSE SetValue(k1, cur)
         IN  [k2 EXCEPT !.sync = FALSE]

\* ------------------------------------------------------------ kill_process
\* What the operating system does with the request: the process does not
\* exist (psutil.NoSuchProcess from Process(), name(), terminate() or
\* kill()), access is denied, another exception is raised, or the signal is
\* sent; and then whether the process ends within the 3 seconds of
\* proc.wait or psutil.TimeoutExpired is raised.
KillOutcomes == {"no_such", "denied", "error", "sent"}
WaitOutcomes == {"exited", "timeout"}

\* ProcessManager.kill_process, process_manager.py lines 141-203 (which
\* AppController.kill_process returns, app_controller.py line 291).
kill_process(force, e, wt) ==
    CASE e = "no_such" -> Result(FALSE, "Process does not exist")
      [] e = "denied" -> Result(FALSE, "Access denied")
      [] e = "error" -> Result(FALSE, "Error terminating process")
      [] e = "sent" ->
            IF wt = "timeout" /\ ~force
            THEN Result(FALSE, "Process did not terminate gracefully")
            ELSE Result(TRUE, IF force THEN "Process was killed (SIGKILL)"
                              ELSE "Process was terminated (SIGTERM)")

\* No kill handler in progress.  In one: pc is "question" while the dialog
\* of line 610 is open and "result" while the one of line 619 is; force, e
\* and wt are the last kill_process call and what the operating system did
\* with it, res its result, gone whether the process ended within the wait.
NoProc == [pc |-> "none", force |-> FALSE, e |-> "none", wt |-> "none",
           res |-> Result(FALSE, "none"), gone |-> FALSE]

\* -------------------------------------------------------------------- Init
Init ==
    /\ threads = [n \in Names |-> 0]
    /\ stop_events = [n \in Names |-> 0]
    /\ korder = <<>>
    /\ lock = "free"
    /\ nthreads = 0
    /\ tname = [t \in Threads |-> "none"]
    /\ tcb = [t \in Threads |-> "none"]
    /\ tpc = [t \in Threads |-> "unborn"]
    /\ event = [t \in Threads |-> FALSE]
    /\ caller = [c \in Callers |-> Idle]
    /\ ret = NoRet
    /\ metrics_history = <<>>
    /\ maxlen = MAX_HISTORY_ENTRIES
    /\ current_metrics = NoMetrics
    /\ view_callback = FALSE
    /\ cycle = 0
    /\ cyc = NoCycle
    /\ notified = <<>>
    /\ appended = <<>>
    /\ ctl = NoCtl
    /\ config = NoConfig
    /\ is_monitoring = FALSE
    /\ kbd = NoKbd
    /\ proc = NoProc

\* ----------------------------------------- start_data_collection_thread
\* A worker that opens with the interval wait.
LoopEntryWaitFirst == "wait"

\* Where a started worker begins: _collection_worker opens with the loop
\* condition of line 83.
LoopEntry == "check"

\* Line 49 missing: every start creates a thread.
AlreadyRunningUnchecked(n) == FALSE

\* Line 49 taking a signalled thread for a stopped one.
AlreadyRunningUnlessSignalled(n) ==
    threads[n] # 0 /\ IsAlive(threads[n]) /\ ~event[threads[n]]

\* thread_manager.py line 49: a thread of that name exists and is alive.
AlreadyRunning(n) == threads[n] # 0 /\ IsAlive(threads[n])

\* The caller's state when a call made with locals k returns to the code
\* that made it: idle, or, in main.py's signal handler (lines 28-30), at
\* sys.exit(0).
Returned(k) ==
    IF k.outer = "signal_handler"
    THEN [Idle EXCEPT !.pc = "sys_exit", !.outer = k.outer]
    ELSE Idle

\* The caller's state when start_data_collection_thread returns ok: back in
\* its own code, or at line 233 of start_monitoring.
AfterStart(k, ok) ==
    IF k.outer = "start_monitoring"
    THEN [Idle EXCEPT !.pc = "start_monitoring", !.outer = k.outer,
                      !.started = ok]
    ELSE Returned(k)

\* Lines 47-69, executed with the lock held from entry to return.  k holds
\* the caller's locals for this call.
StartBody(c, k, cb, n) ==
    /\ lock = "free"
    /\ IF AlreadyRunning(n)
       THEN /\ ret' = Ret("start", c, n, threads[n], FALSE)
            /\ caller' = [caller EXCEPT ![c] = AfterStart(k, FALSE)]
            /\ UNCHANGED <<threads, stop_events, korder, nthreads, tname, tcb,
                           tpc, event>>
       ELSE /\ nthreads < MaxThreads
            /\ LET t == nthreads + 1 IN
               /\ nthreads' = t
               /\ stop_events' = [stop_events EXCEPT ![n] = t]
               /\ threads' = [threads EXCEPT ![n] = t]
               /\ korder' = IF threads[n] = 0 THEN Append(korder, n) ELSE korder
               /\ tname' = [tname EXCEPT ![t] = n]
               /\ tcb' = [tcb EXCEPT ![t] = cb]
               /\ tpc' = [tpc EXCEPT ![t] = LoopEntry]
               /\ event' = [event EXCEPT ![t] = FALSE]
               /\ ret' = Ret("start", c, n, t, TRUE)
               /\ caller' = [caller EXCEPT ![c] = AfterStart(k, TRUE)]
    /\ UNCHANGED <<lock, acVars, uiVars>>

Start(c, n, cb) ==
    /\ caller[c].pc = "idle"
    /\ StartBody(c, Idle, cb, n)

\* ------------------------------------------------------------ stop_thread
\* The caller's state when stop_thread returns: back in its own code (idle),
\* at the start call of restart_thread (line 187), at the next name of
\* stop_all_threads (line 140), or at line 247 of stop_monitoring.
AfterStop(k) ==
    CASE k.op = "restart" -> [Idle EXCEPT !.pc = "restart_start", !.op = k.op,
                                          !.arg = k.arg, !.cb = k.cb]
      [] k.op = "stop_all" /\ k.names # <<>> ->
                             [Idle EXCEPT !.pc = "stop_all", !.op = k.op,
                                          !.names = k.names,
                                          !.n0 = k.n0,
                                          !.anyto = k.anyto \/ k.timedout,
                                          !.outer = k.outer]
      [] k.op = "stop" /\ k.outer # "none" ->
                             [Idle EXCEPT !.pc = "stop_monitoring",
                                          !.outer = k.outer]
      [] OTHER -> Returned(k)

\* r, the return of a stop_thread whose caller's locals are k, marked as the
\* return of stop_all_threads too when it was the call for the last name.
RetAll(k, r) ==
    IF k.op = "stop_all" /\ k.names = <<>>
    THEN [r EXCEPT !.all = TRUE, !.n0 = k.n0,
                   !.anyto = k.anyto \/ k.timedout, !.outer = k.outer]
    ELSE r

\* stop_event.set() killing the thread it signals.
SignalEffectKill(t) == "done"

\* Line 119: the position of worker t once stop_event.set() has been called.
\* set() only sets the flag the worker tests at lines 83 and 92.
SignalEffect(t) == tpc[t]

\* Lines 105-119: the lookups, the early returns and the signal.  k holds the
\* caller's locals for this call.  When the thread is alive the caller keeps
\* the lock and goes on to join (line 122).
StopThreadCall(c, k) ==
    LET n == k.arg IN
    /\ lock = "free"
    /\ IF threads[n] = 0
       THEN /\ ret' = RetAll(k, Ret("stop", c, n, 0, FALSE))
            /\ caller' = [caller EXCEPT ![c] = AfterStop(k)]
            /\ UNCHANGED <<lock, event, tpc>>
       ELSE IF ~IsAlive(threads[n])
       THEN /\ ret' = RetAll(k, Ret("stop", c, n, threads[n], TRUE))
            /\ caller' = [caller EXCEPT ![c] = AfterStop(k)]
            /\ UNCHANGED <<lock, event, tpc>>
       ELSE /\ event' = IF stop_events[n] # 0
                        THEN [event EXCEPT ![stop_events[n]] = TRUE]
                        ELSE event
            /\ tpc' = IF stop_events[n] # 0
                      THEN [tpc EXCEPT ![stop_events[n]] =
                                          SignalEffect(stop_events[n])]
                      ELSE tpc
            /\ lock' = c
            /\ caller' = [caller EXCEPT ![c] = [k EXCEPT !.pc = "join",
                                                         !.thr = threads[n],
                                                         !.sig = tpc[threads[n]]]]
            /\ ret' = NoRet
    /\ UNCHANGED <<threads, stop_events, korder, nthreads, tname, tcb,
                   acVars, uiVars>>

Stop(c, n) ==
    /\ caller[c].pc = "idle"
    /\ StopThreadCall(c, [Idle EXCEPT !.op = "stop", !.arg = n])

\* Line 122 returns because the thread has ended; line 124 then finds it
\* not alive and line 129 returns True.
JoinExit(c) ==
    /\ caller[c].pc = "join"
    /\ ~IsAlive(caller[c].thr)
    /\ lock' = "free"
    /\ ret' = RetAll(caller[c],
                     [Ret("stop", c, caller[c].arg, caller[c].thr, TRUE)
                        EXCEPT !.sig = caller[c].sig])
    /\ caller' = [caller EXCEPT ![c] = AfterStop(caller[c])]
    /\ UNCHANGED <<threads, stop_events, korder, nthreads, tname, tcb, tpc,
                   event, acVars, uiVars>>

\* Line 122 returns because `timeout` seconds have passed.
JoinTimeout(c) ==
    /\ caller[c].pc = "join"
    /\ IsAlive(caller[c].thr)
    /\ caller' = [caller EXCEPT ![c].pc = "joined", ![c].timedout = TRUE]
    /\ ret' = NoRet
    /\ UNCHANGED <<tmVars, tpc, acVars, uiVars>>

\* Lines 124-127 missing: True whatever the join did.
StopResultAlwaysTrue(t) == TRUE

\* Lines 124-129: the value stop_thread returns for thread t after its join.
StopResult(t) == ~IsAlive(t)

\* Lines 124-129 after a join that timed out.
StopCheck(c) ==
    /\ caller[c].pc = "joined"
    /\ lock' = "free"
    /\ ret' = RetAll(caller[c],
                     [Ret("stop", c, caller[c].arg, caller[c].thr,
                          StopResult(caller[c].thr))
                        EXCEPT !.sig = caller[c].sig,
                               !.timedout = caller[c].timedout])
    /\ caller' = [caller EXCEPT ![c] = AfterStop(caller[c])]
    /\ UNCHANGED <<threads, stop_events, korder, nthreads, tname, tcb, tpc,
                   event, acVars, uiVars>>

\* ---------------------------------------------------------- restart_thread
\* Line 184: stop_thread(thread_name) with the default timeout.
Restart(c, n, cb) ==
    /\ caller[c].pc = "idle"
    /\ StopThreadCall(c, [Idle EXCEPT !.op = "restart", !.arg = n, !.cb = cb])

\* Line 187: start_data_collection_thread(callback, interval, thread_name).
RestartStart(c) ==
    /\ caller[c].pc = "restart_start"
    /\ StartBody(c, Idle, caller[c].cb, caller[c].arg)

\* -------------------------------------------------------- stop_all_threads
\* A loop that stops the first registered task only.
ThreadNamesFirstOnly == IF korder = <<>> THEN <<>> ELSE <<Head(korder)>>

\* Line 138: thread_names = list(self._threads.keys()).
ThreadNames == korder

\* Line 138: the keys are copied without taking the lock.  With no key the
\* loop of lines 140-141 has nothing to do and the call returns.
StopAll(c) ==
    /\ caller[c].pc = "idle"
    /\ caller' = [caller EXCEPT ![c] =
                    IF ThreadNames = <<>> THEN Idle
                    ELSE [Idle EXCEPT !.pc = "stop_all", !.op = "stop_all",
                                      !.names = ThreadNames,
                                      !.n0 = nthreads]]
    /\ ret' = IF ThreadNames = <<>>
              THEN [Ret("stop_all", c, "none", 0, FALSE) EXCEPT !.all = TRUE]
              ELSE NoRet
    /\ UNCHANGED <<tmVars, tpc, acVars, uiVars>>

\* Lines 140-141: stop_thread for the next copied name.
StopAllNext(c) ==
    /\ caller[c].pc = "stop_all"
    /\ StopThreadCall(c, [caller[c] EXCEPT !.arg = Head(caller[c].names),
                                           !.names = Tail(caller[c].names)])

\* ------------------------------- start_monitoring, stop_monitoring, cleanup
\* The AppController call `outer` by caller c returns in this step.
RetOuter(c, outer) == [NoRet EXCEPT !.by = c, !.outer = outer]

\* start_monitoring, app_controller.py lines 215-231: nothing is done when
\* the flag is set; otherwise the task is started.
StartMonitoring(c) ==
    /\ caller[c].pc = "idle"
    /\ IF is_monitoring
       THEN /\ ret' = RetOuter(c, "start_monitoring")
            /\ UNCHANGED <<tmVars, tpc, caller, acVars, uiVars>>
       ELSE StartBody(c, [Idle EXCEPT !.outer = "start_monitoring"],
                      "update_metrics", "system_monitor")

\* Lines 233-235: the flag is set if the start succeeded.
StartMonitoringSet(c) ==
    /\ caller[c].pc = "start_monitoring"
    /\ is_monitoring' = (caller[c].started \/ is_monitoring)
    /\ caller' = [caller EXCEPT ![c] = Idle]
    /\ ret' = RetOuter(c, "start_monitoring")
    /\ UNCHANGED <<tmVars, tpc, acVars, ctl, config, kbd, proc>>

\* stop_monitoring as called by `outer`, lines 241-246: nothing is done when
\* the flag is clear (next says where the caller goes on then); otherwise
\* stop_thread("system_monitor") is called.
StopMonitoringCall(c, outer, next) ==
    IF ~is_monitoring
    THEN /\ caller' = [caller EXCEPT ![c] = next]
         /\ ret' = IF next = Idle THEN RetOuter(c, outer) ELSE NoRet
         /\ UNCHANGED <<tmVars, tpc, acVars, uiVars>>
    ELSE StopThreadCall(c, [Idle EXCEPT !.op = "stop",
                                        !.arg = "system_monitor",
                                        !.outer = outer])

\* cleanup at line 322, stop_monitoring being done.
AtStopAll(outer) == [Idle EXCEPT !.pc = "cleanup_stop_all", !.outer = outer]

StopMonitoring(c) ==
    /\ caller[c].pc = "idle"
    /\ StopMonitoringCall(c, "stop_monitoring", Idle)

\* Line 247: the flag is cleared whatever stop_thread returned.
StopMonitoringClear(c) ==
    /\ caller[c].pc = "stop_monitoring"
    /\ is_monitoring' = FALSE
    /\ caller' = [caller EXCEPT ![c] =
                    IF caller[c].outer = "stop_monitoring" THEN Idle
                    ELSE AtStopAll(caller[c].outer)]
    /\ ret' = IF caller[c].outer = "stop_monitoring"
              THEN RetOuter(c, "stop_monitoring") ELSE NoRet
    /\ UNCHANGED <<tmVars, tpc, acVars, ctl, config, kbd, proc>>

\* cleanup is entered (line 320), from the program's own code.
Cleanup(c) ==
    /\ caller[c].pc = "idle"
    /\ caller' = [caller EXCEPT ![c] = [Idle EXCEPT !.pc = "cleanup",
                                                    !.outer = "cleanup"]]
    /\ ret' = NoRet
    /\ UNCHANGED <<tmVars, tpc, acVars, uiVars>>

\* Line 321: self.stop_monitoring().
CleanupStopMonitoring(c) ==
    /\ caller[c].pc = "cleanup"
    /\ StopMonitoringCall(c, caller[c].outer, AtStopAll(caller[c].outer))

\* Line 322: self._thread_manager.stop_all_threads(), as StopAll.
CleanupStopAll(c) ==
    /\ caller[c].pc = "cleanup_stop_all"
    /\ caller' = [caller EXCEPT ![c] =
                    IF ThreadNames = <<>> THEN Returned(caller[c])
                    ELSE [Idle EXCEPT !.pc = "stop_all", !.op = "stop_all",
                                      !.names = ThreadNames,
                                      !.n0 = nthreads,
                                      !.outer = caller[c].outer]]
    /\ ret' = IF ThreadNames = <<>>
              THEN [Ret("stop_all", c, "none", 0, FALSE)
                      EXCEPT !.all = TRUE, !.outer = caller[c].outer]
              ELSE NoRet
    /\ UNCHANGED <<tmVars, tpc, acVars, uiVars>>

\* The controller's thread: AppController is driven from the main thread.
Controller == "c1"

\* main.py: on top of the frame of the main thread that runs the program,
\* while a signal is handled, is the frame of signal_handler.
HandlerFrame == "c2"

\* SIGINT or SIGTERM is delivered: Python runs signal_handler (lines 18-30)
\* in the main thread, on top of whatever the main thread is executing,
\* and the handler calls controller.cleanup().
SignalHandler ==
    /\ caller[HandlerFrame].pc = "idle"
    /\ caller' = [caller EXCEPT ![HandlerFrame] =
                    [Idle EXCEPT !.pc = "cleanup",
                                 !.outer = "signal_handler"]]
    /\ ret' = NoRet
    /\ UNCHANGED <<tmVars, tpc, acVars, uiVars>>

\* Line 30: sys.exit(0) raises SystemExit, which unwinds the interrupted
\* frame (a `with self._lock` block releases the lock) up to the finally
\* block of main (lines 76-78), where cleanup is called again unless the
\* interrupted code was that very call.
SysExit ==
    /\ caller[HandlerFrame].pc = "sys_exit"
    /\ caller' = [caller EXCEPT
                    ![HandlerFrame] = Idle,
                    ![Controller] = IF caller[Controller].outer = "cleanup"
                                   THEN Idle
                                   ELSE [Idle EXCEPT !.pc = "cleanup",
                                                     !.outer = "cleanup"]]
    /\ lock' = "free"
    /\ ret' = NoRet
    /\ UNCHANGED <<threads, stop_events, korder, nthreads, tname, tcb, event,
                   tpc, acVars, uiVars>>

\* ------------------------------------------------------ _collection_worker
\* Line 83: the loop condition.  The bound on cycles stops a worker of
\* update_metrics here once MaxCycles queries have been made.
WorkerCheck(t) ==
    /\ tpc[t] = "check"
    /\ event[t] \/ tcb[t] # "update_metrics" \/ cycle < MaxCycles
    /\ tpc' = [tpc EXCEPT ![t] = IF event[t] THEN "done" ELSE "call"]
    /\ ret' = NoRet
    /\ UNCHANGED <<tmVars, caller, acVars, uiVars>>

\* Line 86: callback() is entered.
WorkerCall(t) ==
    /\ tpc[t] = "call"
    /\ tpc' = [tpc EXCEPT ![t] = IF tcb[t] = "update_metrics"
                                 THEN "um_query" ELSE "callback"]
    /\ ret' = NoRet
    /\ UNCHANGED <<tmVars, caller, acVars, uiVars>>

\* Line 86 returns normally; the worker goes on to line 92.
CallbackReturn(t) ==
    /\ tpc[t] = "callback"
    /\ tcb[t] = "work"
    /\ tpc' = [tpc EXCEPT ![t] = "wait"]
    /\ ret' = Ret("callback", "worker", tname[t], t, TRUE)
    /\ UNCHANGED <<tmVars, caller, acVars, uiVars>>

\* No handler around line 86: the exception ends the thread.
AfterRaiseUncaught(t) == "done"

\* A handler that retries the callback at once, without the wait and the
\* loop condition.
AfterRaiseRetry(t) == "callback"

\* A handler that calls the callback again without the wait and without the
\* loop condition.
AfterRaiseSkipsCondition(t) == "call"

\* Lines 87-88: where the worker continues after callback() raised.
AfterRaise(t) == "wait"

\* Line 86 raises an Exception.
CallbackRaise(t) ==
    /\ tpc[t] = "callback"
    /\ tcb[t] = "work"
    /\ tpc' = [tpc EXCEPT ![t] = AfterRaise(t)]
    /\ ret' = Ret("callback", "worker", tname[t], t, FALSE)
    /\ UNCHANGED <<tmVars, caller, acVars, uiVars>>

\* A loop that tests the stop event before the wait instead of after it.
AfterWaitNoCheck(t) == "call"

\* Line 92: where the worker continues when stop_event.wait(timeout=interval)
\* returns, because the event is set or because the interval has passed.
AfterWait(t) == "check"

WaitReturn(t) ==
    /\ tpc[t] = "wait"
    /\ tpc' = [tpc EXCEPT ![t] = AfterWait(t)]
    /\ ret' = NoRet
    /\ UNCHANGED <<tmVars, caller, acVars, uiVars>>

\* ---------------------------------------------------------- update_metrics
\* SystemData.get_all_metrics: the dict built from the four group queries.
Reading(id) == [id |-> id, cpu |-> "valid", ram |-> "valid",
                storage |-> "valid", network |-> "valid", read_time |-> FALSE]

\* The history entry built at app_controller.py lines 100-106.
Entry(m) == [timestamp |-> m.id, cpu_percent |-> m.cpu, ram_percent |-> m.ram,
             network |-> m.network]

\* update_metrics without the handler of lines 111-112.
NoHandler(raised) == ~raised

\* Lines 92, 111-112: whether update_metrics returns normally, `raised`
\* saying that a statement of its try block raised an Exception.
ReturnsNormally(raised) == TRUE

\* A cycle that notifies before it appends.
NextStageNotifyFirst(s) ==
    CASE s = "um_query" -> "um_stamp"
      [] s = "um_stamp" -> "um_notify"
      [] s = "um_notify" -> "um_append"
      [] s = "um_append" -> "wait"

\* The statements of the try block in order: line 94 (query), line 97
\* (read_time), lines 100-106 (append), line 109 (notify); after the last one
\* update_metrics returns and the worker is at its interval wait.
NextStage(s) ==
    CASE s = "um_query" -> "um_stamp"
      [] s = "um_stamp" -> "um_append"
      [] s = "um_append" -> "um_notify"
      [] s = "um_notify" -> "wait"

\* ret for a step of update_metrics in thread t that leaves the worker at
\* position `next`: the return of the callback invocation if it was the last.
UmRet(t, next, raised, where) ==
    IF next = "wait"
    THEN [Ret("callback", "worker", tname[t], t, ReturnsNormally(raised))
            EXCEPT !.exc = where]
    ELSE NoRet

\* Line 94 with every group query succeeding.
UmQueryOk(t) ==
    /\ tpc[t] = "um_query"
    /\ cycle' = cycle + 1
    /\ current_metrics' = Reading(cycle + 1)
    /\ cyc' = [NoCycle EXCEPT !.id = cycle + 1]
    /\ tpc' = [tpc EXCEPT ![t] = NextStage("um_query")]
    /\ ret' = NoRet
    /\ UNCHANGED <<tmVars, uiVars, maxlen, caller, metrics_history, view_callback,
                   notified, appended>>

\* Line 94 with the query of group g raising: get_all_metrics has no handler,
\* the exception reaches lines 111-112 and update_metrics returns.
UmQueryFail(t, g) ==
    /\ tpc[t] = "um_query"
    /\ cycle' = cycle + 1
    /\ cyc' = [NoCycle EXCEPT !.id = cycle + 1, !.failed = g, !.done = TRUE]
    /\ tpc' = [tpc EXCEPT ![t] = "wait"]
    /\ ret' = UmRet(t, "wait", TRUE, "query")
    /\ UNCHANGED <<tmVars, uiVars, maxlen, caller, metrics_history, current_metrics,
                   view_callback, notified, appended>>

\* Line 97: the read_time field is added to the reading.
UmStamp(t) ==
    /\ tpc[t] = "um_stamp"
    /\ current_metrics' = [current_metrics EXCEPT !.read_time = TRUE]
    /\ tpc' = [tpc EXCEPT ![t] = NextStage("um_stamp")]
    /\ ret' = NoRet
    /\ UNCHANGED <<tmVars, uiVars, maxlen, caller, metrics_history, view_callback,
                   cycle, cyc, notified, appended>>

\* Lines 100-106.  No lock is taken: a list() that is iterating over the
\* deque in another thread finds it mutated.
UmAppend(t) ==
    /\ tpc[t] = "um_append"
    /\ metrics_history' = DequeAppend(metrics_history, Entry(current_metrics))
    /\ appended' = Append(appended, Entry(current_metrics))
    /\ cyc' = [cyc EXCEPT !.appended = TRUE,
                          !.done = (NextStage("um_append") = "wait")]
    /\ tpc' = [tpc EXCEPT ![t] = NextStage("um_append")]
    /\ caller' = [c \in Callers |->
                    IF caller[c].pc = "snapshot"
                    THEN [caller[c] EXCEPT !.mutated = TRUE]
                    ELSE caller[c]]
    /\ ret' = UmRet(t, NextStage("um_append"), FALSE, "none")
    /\ UNCHANGED <<tmVars, uiVars, maxlen, current_metrics, view_callback, cycle,
                   notified>>

\* _notify_view without the return of line 127.
NotifyViewFallThrough(m, cb) ==
    IF m.id = 0 THEN <<>>
    ELSE IF cb THEN <<[id |-> m.id, via |-> "view"],
                      [id |-> m.id, via |-> "console"]>>
    ELSE <<[id |-> m.id, via |-> "console"]>>

\* _notify_view, lines 114-130: the presentation actions taken for the
\* current reading m, cb saying that a view callback is registered.
NotifyView(m, cb) ==
    IF m.id = 0 THEN <<>>
    ELSE IF cb THEN <<[id |-> m.id, via |-> "view"]>>
    ELSE <<[id |-> m.id, via |-> "console"]>>

\* Line 109: `raises` says whether the view callback or the console dump
\* raised, which ends the try block at lines 111-112.
UmNotify(t, raises) ==
    LET next == IF raises THEN "wait" ELSE NextStage("um_notify") IN
    /\ tpc[t] = "um_notify"
    /\ notified' = notified \o NotifyView(current_metrics, view_callback)
    /\ cyc' = [cyc EXCEPT !.notified = (current_metrics.id # 0),
                          !.done = (next = "wait")]
    /\ tpc' = [tpc EXCEPT ![t] = next]
    /\ ret' = UmRet(t, next, raises, IF raises THEN "notify" ELSE "none")
    /\ UNCHANGED <<tmVars, uiVars, maxlen, caller, metrics_history, current_metrics,
                   view_callback, cycle, appended>>

\* get_metrics_history, line 266: list() starts to iterate over the deque.
\* No lock is taken, so the collection thread can run before the copy ends.
GetMetricsHistory(c) ==
    /\ caller[c].pc = "idle"
    /\ caller' = [caller EXCEPT ![c] = [Idle EXCEPT !.pc = "snapshot",
                                            !.op = "get_metrics_history"]]
    /\ ret' = NoRet
    /\ UNCHANGED <<tmVars, tpc, acVars, uiVars>>

\* Line 266: list() ends.  The deque's iterator raises RuntimeError ("deque
\* mutated during iteration") if the deque was appended to since it began;
\* otherwise the copy is returned.
GetMetricsHistoryReturn(c) ==
    /\ caller[c].pc = "snapshot"
    /\ ret' = IF caller[c].mutated
              THEN [Ret("get_metrics_history", c, "none", 0, FALSE)
                      EXCEPT !.exc = "RuntimeError"]
              ELSE [Ret("get_metrics_history", c, "none", 0, TRUE)
                      EXCEPT !.list = ListOf(metrics_history)]
    /\ caller' = [caller EXCEPT ![c] = Idle]
    /\ UNCHANGED <<tmVars, tpc, acVars, uiVars>>

\* set_view_callback, lines 69-79.
SetViewCallback(c) ==
    /\ caller[c].pc = "idle"
    /\ ~view_callback
    /\ view_callback' = TRUE
    /\ ret' = NoRet
    /\ UNCHANGED <<tmVars, uiVars, maxlen, tpc, caller, metrics_history,
                   current_metrics, cycle, cyc, notified, appended>>

\* ------------------------------------- is_thread_running, get_active_threads
\* thread_manager.py lines 153-156, executed with the lock held.
IsThreadRunning(c, n) ==
    /\ caller[c].pc = "idle"
    /\ lock = "free"
    /\ ret' = Ret("is_thread_running", c, n, threads[n],
                  threads[n] # 0 /\ IsAlive(threads[n]))
    /\ UNCHANGED <<tmVars, tpc, caller, acVars, uiVars>>

\* The subsequence of the names q whose thread is alive.
AliveNames(q) == SelectSeq(q, LAMBDA n : IsAlive(threads[n]))

\* Lines 165-166, executed with the lock held.
GetActiveThreads(c) ==
    /\ caller[c].pc = "idle"
    /\ lock = "free"
    /\ ret' = [Ret("get_active_threads", c, "none", 0, TRUE)
                 EXCEPT !.list = AliveNames(korder)]
    /\ UNCHANGED <<tmVars, tpc, caller, acVars, uiVars>>

\* SensorsReader.set_pwm, sensors.py lines 105-118 (FanManager.set_pwm
\* forwards to it).
set_pwm(value, w) ==
    IF value < 0 \/ value > 255
    THEN Result(FALSE, "PWM fuera de rango (0-255)")
    ELSE IF w = "written" THEN Result(TRUE, "PWM ajustado")
    ELSE IF w = "denied" THEN Result(FALSE, "Permiso denegado al escribir PWM")
    ELSE Result(FALSE, "Error al escribir PWM")

\* PowerManager._run_helper, power_manager.py lines 97-119; the helper's main
\* (scripts/power_helper.py) exits with 0 when its write reached a CPU
\* (`return success > 0`, power_helper.py lines 31 and 49).
\* Line 118 catches subprocess.SubprocessError only.
PowerRunHelper(h) ==
    CASE h.launch = "no_helper" -> Result(FALSE, "Helper de energia no encontrado")
      [] h.launch = "no_pkexec" -> Result(FALSE, "pkexec no disponible")
      [] h.launch = "timeout" -> Result(FALSE, "Error ejecutando pkexec")
      [] h.launch = "oserror" -> Raised("OSError")
      [] h.launch = "ran" -> IF h.cpus # {} THEN Result(TRUE, "Perfil aplicado con pkexec")
                             ELSE Result(FALSE, "pkexec fallo en aplicar el perfil")

\* PowerManager.set_governor, lines 48-75.  governor "" is the empty string.
set_governor(governor, cs, avail, ok, pk, h) ==
    IF governor = "" THEN Result(FALSE, "Gobernador no especificado")
    ELSE IF cs = {} THEN Result(FALSE, "No se encontro ruta cpufreq")
    ELSE IF avail # {} /\ governor \notin avail
    THEN Result(FALSE, "Gobernador no soportado")
    ELSE IF cs \ ok # {}
    THEN IF pk THEN PowerRunHelper(h)
         ELSE Result(FALSE, "No se pudo escribir. Requiere permisos.")
    ELSE Result(TRUE, "Gobernador establecido")

\* PowerManager.set_max_freq, lines 77-95.
set_max_freq(khz, cs, ok, pk, h) ==
    IF khz <= 0 THEN Result(FALSE, "Frecuencia invalida")
    ELSE IF cs = {} THEN Result(FALSE, "No se encontro ruta cpufreq")
    ELSE IF cs \ ok # {}
    THEN IF pk THEN PowerRunHelper(h)
         ELSE Result(FALSE, "No se pudo escribir. Requiere permisos.")
    ELSE Result(TRUE, "Frecuencia maxima ajustada")

\* The options scripts/msi_ec_helper.py declares (lines 31-34); argparse
\* exits with status 2 on any other.
HelperOptions == {"fan_mode", "shift_mode", "cooler_boost", "brightness"}

\* MsiEcManager._run_helper, msi_ec_manager.py lines 138-151, for the file
\* named target.  Line 150 catches subprocess.SubprocessError only.
MsiRunHelper(target, h) ==
    CASE h.launch = "no_helper" -> Result(FALSE, "Helper msi-ec no encontrado")
      [] h.launch = "no_pkexec" -> Result(FALSE, "pkexec no disponible")
      [] h.launch = "timeout" -> Result(FALSE, "Error ejecutando pkexec")
      [] h.launch = "oserror" -> Raised("OSError")
      [] h.launch = "ran" -> IF target \in HelperOptions /\ h.wrote
                             THEN Result(TRUE, "aplicado")
                             ELSE Result(FALSE, "pkexec fallo")

\* MsiEcManager._write_value, lines 126-136.  The helper runs inside the
\* PermissionError handler, outside the try block.
WriteValue(target, w, pk, h) ==
    IF w = "written" THEN Result(TRUE, "ajustado")
    ELSE IF w = "denied"
    THEN IF pk THEN MsiRunHelper(target, h)
         ELSE Result(FALSE, "Permiso denegado (requiere pkexec/root)")
    ELSE Result(FALSE, "Error escribiendo")

\* MsiEcManager._write_mode, lines 117-124 (set_fan_mode, set_shift_mode).
WriteMode(filename, value, exists, avail, w, pk, h) ==
    IF ~exists THEN Result(FALSE, "no soportado en este equipo")
    ELSE IF avail # {} /\ value \notin avail
    THEN Result(FALSE, "Valor no soportado")
    ELSE WriteValue(filename, w, pk, h)

\* set_cooler_boost (lines 50-62), set_webcam (93-97), set_webcam_block
\* (99-103), set_keyboard_backlight (106-110): the file must exist.
WriteSwitch(filename, exists, w, pk, h) ==
    IF ~exists THEN Result(FALSE, "no soportado")
    ELSE WriteValue(filename, w, pk, h)

\* " | ".join of the non-empty messages: the messages in order.
Joined(rs) == [i \in 1..Len(rs) |-> rs[i].message]

\* success and res.get("success", False) over the results rs.
AllSucceed(rs) == \A i \in 1..Len(rs) : rs[i].success

\* The first of the results rs that is an exception, if there is one: the
\* statements after it are not executed.
FirstRaised(rs) ==
    LET I == {i \in 1..Len(rs) : rs[i].kind = "raised"} IN
    IF I = {} THEN Result(TRUE, "none")
    ELSE rs[CHOOSE i \in I : \A j \in I : i <= j]

\* MsiEcManager.set_battery_thresholds, lines 76-90: start and stop say
\* which of the thresholds `start` and `end` are given, w1 and w2 what their
\* writes do.
set_battery_thresholds(start, stop, exists, w1, w2, pk, h) ==
    LET rs == (IF start
               THEN <<WriteValue("charge_control_start_threshold", w1, pk, h)>>
               ELSE <<>>)
              \o (IF stop
                  THEN <<WriteValue("charge_control_end_threshold", w2, pk, h)>>
                  ELSE <<>>)
    IN  IF ~exists THEN Result(FALSE, "BAT1 no encontrada")
        ELSE IF FirstRaised(rs).kind = "raised" THEN FirstRaised(rs)
        ELSE Result(AllSucceed(rs), Joined(rs))

\* A value of config.json: absent or null, a number, or a string that is
\* not a number.
NoValue == [type |-> "none", v |-> 0]
Number(v) == [type |-> "int", v |-> v]
Text == [type |-> "text", v |-> 0]

\* What a profile of config.json can hold: load_config merges the file
\* into the defaults without validating it (config.py lines 49-67).
ProfileCfgs ==
    [governor : {"none", "performance"},
     max_freq_khz : {NoValue, Number(2), Text},
     pwm : {NoValue, Number(128), Text},
     pwm_path : {"none", "pwm1"}]

\* profiles_cfg.get(name) for a name it does not hold, or an empty profile.
NoProfile == [governor |-> "absent", max_freq_khz |-> NoValue,
              pwm |-> NoValue, pwm_path |-> "none"]

\* int(x), app_profiles.py lines 46 and 53: ValueError for a string that is
\* not a number.
IntOf(x) == IF x.type = "text" THEN Raised("ValueError")
            ELSE Result(TRUE, "int")

\* AppProfiles.apply_profile, lines 30-57, cfg being what profiles_cfg holds
\* under the name.
apply_profile(cfg, cs, avail, ok, w, pk, h) ==
    IF cfg = NoProfile THEN Result(FALSE, "Perfil no encontrado")
    ELSE
    LET r1 == IF cfg.governor # "none"
              THEN <<set_governor(cfg.governor, cs, avail, ok, pk, h)>>
              ELSE <<>>
        r2 == IF cfg.max_freq_khz.type # "none"
              THEN IF IntOf(cfg.max_freq_khz).kind = "raised"
                   THEN <<IntOf(cfg.max_freq_khz)>>
                   ELSE <<set_max_freq(cfg.max_freq_khz.v, cs, ok, pk, h)>>
              ELSE <<>>
        r3 == IF cfg.pwm.type # "none" /\ cfg.pwm_path # "none"
              THEN IF IntOf(cfg.pwm).kind = "raised"
                   THEN <<IntOf(cfg.pwm)>>
                   ELSE <<set_pwm(cfg.pwm.v, w)>>
              ELSE <<>>
        rs == r1 \o r2 \o r3
    IN  IF FirstRaised(rs).kind = "raised" THEN FirstRaised(rs)
        ELSE Result(AllSucceed(rs), Joined(rs))

\* ------------------------------------------- what the calls write
\* str(int(v)), for the numbers the model writes to a file.
Str(n) == CASE n = 0 -> "0"
            [] n = 2 -> "2"
            [] n = 60 -> "60"
            [] n = 80 -> "80"
            [] n = 128 -> "128"
            [] n = 255 -> "255"

\* A write that clears a setting which already holds the value.
FileWriteToggle(old, new) == IF old = new THEN "cleared" ELSE new

\* open(path, "w") and write(new) on a sysfs file holding old: the file
\* holds what was written.
FileWrite(old, new) == new

\* A call's result, the hardware settings it leaves and the options it
\* passed to msi_ec_helper.py.
Outcome(res, hw, opts) == [res |-> res, hw |-> hw, opts |-> opts]

\* A statement that is not executed.
Skip(hw) == Outcome(Result(TRUE, "none"), hw, <<>>)

\* sensors.py lines 109-113.
PwmCall(hw, value, w) ==
    Outcome(set_pwm(value, w),
            IF value >= 0 /\ value <= 255 /\ w = "written"
            THEN [hw EXCEPT !.pwm = FileWrite(@, Str(value))]
            ELSE hw,
            <<>>)

\* The CPUs whose file a PowerManager call writes: those of the loop
\* (lines 65-68, 86-89) and, when the loop had errors and use_pkexec is on,
\* those the helper writes.
CpusWritten(cs, ok, pk, h) ==
    ok \cup (IF cs \ ok # {} /\ pk /\ h.launch = "ran" THEN h.cpus ELSE {})

\* The per-CPU files after value was written to those of the CPUs in W.
WriteCpus(files, W, value) ==
    [c \in Cpus |-> IF c \in W THEN FileWrite(files[c], value) ELSE files[c]]

\* power_manager.py lines 48-75.
GovernorCall(hw, governor, cs, avail, ok, pk, h) ==
    Outcome(set_governor(governor, cs, avail, ok, pk, h),
            IF governor = "" \/ cs = {} \/ (avail # {} /\ governor \notin avail)
            THEN hw
            ELSE [hw EXCEPT !.gov = WriteCpus(@, CpusWritten(cs, ok, pk, h),
                                              governor)],
            <<>>)

\* power_manager.py lines 77-95.
MaxFreqCall(hw, khz, cs, ok, pk, h) ==
    Outcome(set_max_freq(khz, cs, ok, pk, h),
            IF khz <= 0 \/ cs = {}
            THEN hw
            ELSE [hw EXCEPT !.freq = WriteCpus(@, CpusWritten(cs, ok, pk, h),
                                               Str(khz))],
            <<>>)

\* msi_ec_manager.py lines 126-151 and msi_ec_helper.py lines 29-51: the
\* file is written by line 129 or by the helper, which is run with the
\* option --<target> (line 144) once the helper and pkexec were found.
WriteValueCall(hw, target, value, w, pk, h) ==
    Outcome(WriteValue(target, w, pk, h),
            IF \/ w = "written"
               \/ /\ w = "denied" /\ pk /\ h.launch = "ran"
                  /\ target \in HelperOptions /\ h.wrote
            THEN [hw EXCEPT !.ec[target] = FileWrite(@, value)]
            ELSE hw,
            IF w = "denied" /\ pk /\ h.launch \in {"timeout", "oserror", "ran"}
            THEN <<target>>
            ELSE <<>>)

\* msi_ec_manager.py lines 117-124.
WriteModeCall(hw, filename, value, exists, avail, w, pk, h) ==
    IF ~exists \/ (avail # {} /\ value \notin avail)
    THEN Outcome(WriteMode(filename, value, exists, avail, w, pk, h), hw, <<>>)
    ELSE WriteValueCall(hw, filename, value, w, pk, h)

\* What the model's calls write to a switch: "on" (set_cooler_boost,
\* set_webcam, set_webcam_block), str(int(level)) for the backlight.
SwitchValue(filename) == IF filename = "brightness" THEN Str(2) ELSE "on"

\* msi_ec_manager.py lines 50-62, 93-110.
WriteSwitchCall(hw, filename, exists, w, pk, h) ==
    IF ~exists
    THEN Outcome(WriteSwitch(filename, exists, w, pk, h), hw, <<>>)
    ELSE WriteValueCall(hw, filename, SwitchValue(filename), w, pk, h)

\* msi_ec_manager.py lines 76-90, with start = 60 and end = 80 when given.
BatteryCall(hw, start, stop, exists, w1, w2, pk, h) ==
    LET a == IF start
             THEN WriteValueCall(hw, "charge_control_start_threshold",
                                 Str(60), w1, pk, h)
             ELSE Skip(hw)
        b == IF stop /\ a.res.kind # "raised"
             THEN WriteValueCall(a.hw, "charge_control_end_threshold",
                                 Str(80), w2, pk, h)
             ELSE Skip(a.hw)
    IN  IF ~exists
        THEN Outcome(set_battery_thresholds(start, stop, exists, w1, w2, pk, h),
                     hw, <<>>)
        ELSE Outcome(set_battery_thresholds(start, stop, exists, w1, w2, pk, h),
                     b.hw, a.opts \o b.opts)

\* app_profiles.py lines 30-57: the three settings in order, a statement
\* that raises ending the call with the earlier writes made.
ProfileCall(hw, cfg, cs, avail, ok, w, pk, h) ==
    LET a == IF cfg.governor # "none"
             THEN GovernorCall(hw, cfg.governor, cs, avail, ok, pk, h)
             ELSE Skip(hw)
        raised2 == /\ cfg.max_freq_khz.type # "none"
                   /\ IntOf(cfg.max_freq_khz).kind = "raised"
        b == IF a.res.kind = "raised" \/ raised2
                \/ cfg.max_freq_khz.type = "none"
             THEN Skip(a.hw)
             ELSE MaxFreqCall(a.hw, cfg.max_freq_khz.v, cs, ok, pk, h)
        c == IF a.res.kind = "raised" \/ raised2 \/ b.res.kind = "raised"
                \/ cfg.pwm.type = "none" \/ cfg.pwm_path = "none"
                \/ IntOf(cfg.pwm).kind = "raised"
             THEN Skip(b.hw)
             ELSE PwmCall(b.hw, cfg.pwm.v, w)
    IN  Outcome(apply_profile(cfg, cs, avail, ok, w, pk, h),
                IF cfg = NoProfile THEN hw ELSE c.hw,
                <<>>)

\* ------------------------------------------------ control-surface calls
\* The scheduler and the controller are not involved in a control call.
schedVars == <<tmVars, tpc, caller, ret, acVars>>

PwmValues == {-1, 0, 255, 256}
GovernorArgs == {"", "performance", "turbo"}
AvailableGovernors == {"powersave", "performance"}
FreqArgs == {0, 2}
ModeFiles == {"fan_mode", "shift_mode"}
ModeArgs == {"auto", "turbo"}
AvailableModes == {"auto", "silent"}
SwitchFiles == {"cooler_boost", "webcam", "webcam_block", "brightness"}

\* ctl once the call op(arg), which found the hardware as hw0, has ended
\* with outcome a, b being the outcome of the same call issued again on the
\* hardware a left.
Called(op, arg, hw0, a, b) ==
    [op |-> op, arg |-> arg, pre |-> hw0, res |-> a.res, hw |-> a.hw,
     opts |-> a.opts, again |-> [res |-> b.res, hw |-> b.hw]]

\* The handlers of the presentation layer run one at a time in the GUI
\* thread: each makes its call, which finds the hardware as hw0 and whose
\* writes the operating system answers as the other parameters say, shows
\* the result and ends.
SetPwm(hw0, value, w) ==
    LET a == PwmCall(hw0, value, w) IN
    /\ ctl = NoCtl
    /\ ctl' = Called("set_pwm", <<value>>, hw0, a, PwmCall(a.hw, value, w))
    /\ UNCHANGED <<schedVars, config, is_monitoring, kbd, proc>>

SetGovernor(hw0, g, cs, avail, ok, pk, h) ==
    LET a == GovernorCall(hw0, g, cs, avail, ok, pk, h) IN
    /\ ctl = NoCtl
    /\ ctl' = Called("set_governor", <<g, avail>>, hw0, a,
                     GovernorCall(a.hw, g, cs, avail, ok, pk, h))
    /\ UNCHANGED <<schedVars, config, is_monitoring, kbd, proc>>

SetMaxFreq(hw0, khz, cs, ok, pk, h) ==
    LET a == MaxFreqCall(hw0, khz, cs, ok, pk, h) IN
    /\ ctl = NoCtl
    /\ ctl' = Called("set_max_freq", <<khz>>, hw0, a,
                     MaxFreqCall(a.hw, khz, cs, ok, pk, h))
    /\ UNCHANGED <<schedVars, config, is_monitoring, kbd, proc>>

\* set_fan_mode, set_shift_mode.
MsiSetMode(hw0, f, value, exists, avail, w, pk, h) ==
    LET a == WriteModeCall(hw0, f, value, exists, avail, w, pk, h) IN
    /\ ctl = NoCtl
    /\ ctl' = Called(f, <<value>>, hw0, a,
                     WriteModeCall(a.hw, f, value, exists, avail, w, pk, h))
    /\ UNCHANGED <<schedVars, config, is_monitoring, kbd, proc>>

\* set_cooler_boost, set_webcam, set_webcam_block, set_keyboard_backlight.
MsiSetSwitch(hw0, f, exists, w, pk, h) ==
    LET a == WriteSwitchCall(hw0, f, exists, w, pk, h) IN
    /\ ctl = NoCtl
    /\ ctl' = Called(f, <<SwitchValue(f)>>, hw0, a,
                     WriteSwitchCall(a.hw, f, exists, w, pk, h))
    /\ UNCHANGED <<schedVars, config, is_monitoring, kbd, proc>>

SetBatteryThresholds(hw0, start, stop, exists, w1, w2, pk, h) ==
    LET a == BatteryCall(hw0, start, stop, exists, w1, w2, pk, h) IN
    /\ ctl = NoCtl
    /\ ctl' = Called("set_battery_thresholds", <<start, stop>>, hw0, a,
                     BatteryCall(a.hw, start, stop, exists, w1, w2, pk, h))
    /\ UNCHANGED <<schedVars, config, is_monitoring, kbd, proc>>

ApplyProfile(hw0, cfg, cs, avail, ok, w, pk, h) ==
    LET a == ProfileCall(hw0, cfg, cs, avail, ok, w, pk, h) IN
    /\ ctl = NoCtl
    /\ ctl' = Called("apply_profile", <<cfg>>, hw0, a,
                     ProfileCall(a.hw, cfg, cs, avail, ok, w, pk, h))
    /\ UNCHANGED <<schedVars, config, is_monitoring, kbd, proc>>

\* main_window.py lines 873-1041: the handler shows the message of the
\* result (or the exception leaves the slot) and ends.
HandlerEnds ==
    /\ ctl # NoCtl
    /\ ctl' = NoCtl
    /\ UNCHANGED <<schedVars, config, is_monitoring, kbd, proc>>

\* load_config() with config.json as `file`.
LoadConfig(file) ==
    /\ config' = [config EXCEPT
                    !.defaults = load_config(config.defaults, file).defaults,
                    !.result = load_config(config.defaults, file).result,
                    !.file = file,
                    !.loads = IF @ < 2 THEN @ + 1 ELSE @]
    /\ UNCHANGED <<schedVars, ctl, is_monitoring, kbd, proc>>

\* gui_main.py lines 27-31: the controller is constructed with the loaded
\* update_interval, history_duration and config as keyword arguments.
GuiConstruct ==
    /\ config.loads > 0 /\ config.gui = "none"
    /\ config' = [config EXCEPT !.gui =
                    AppControllerInit({"update_interval", "history_duration",
                                       "config"})]
    /\ UNCHANGED <<schedVars, ctl, is_monitoring, kbd, proc>>

\* ------------------------------------------------- the window's handlers
\* The user moves the slider to v (no modal dialog being open): valueChanged
\* runs _on_kbd_backlight_changed.
KbdUserChanges(v) ==
    /\ proc.pc = "none"
    /\ v # kbd.slider
    /\ kbd' = [SetValue(kbd, v) EXCEPT !.dirty = TRUE, !.by = "user",
                                       !.call = -1, !.ok = FALSE]
    /\ UNCHANGED <<schedVars, ctl, config, is_monitoring, proc>>

\* 500 ms have passed since the timer was last started: line 356.
KbdTimerFires(exists, w, pk, h) ==
    /\ kbd.timer
    /\ kbd' = [ApplyKbdBacklight(kbd, WriteSwitch("brightness", exists, w,
                                                  pk, h))
                 EXCEPT !.by = "timer"]
    /\ UNCHANGED <<schedVars, ctl, config, is_monitoring, proc>>

\* The apply button, line 357.
KbdApplyClicked(exists, w, pk, h) ==
    /\ proc.pc = "none"
    /\ kbd' = [ApplyKbdBacklight(kbd, WriteSwitch("brightness", exists, w,
                                                  pk, h))
                 EXCEPT !.by = "button"]
    /\ UNCHANGED <<schedVars, ctl, config, is_monitoring, proc>>

\* _aux_timer, started with 2000 ms at line 502, runs _refresh_aux_panels
\* (lines 679-686), whose last call is _refresh_msi_ec.
KbdRefresh(available, cur) ==
    /\ kbd' = [RefreshMsiEc(kbd, available, cur)
                 EXCEPT !.by = "refresh", !.call = -1, !.ok = FALSE]
    /\ UNCHANGED <<schedVars, ctl, config, is_monitoring, proc>>

\* _kill_selected_process, lines 599-620, up to the first dialog: line 608
\* asks for a graceful termination.
KillSelected(e, wt) ==
    LET res == kill_process(FALSE, e, wt) IN
    /\ proc.pc = "none"
    /\ proc' = [pc |-> IF res.success THEN "result" ELSE "question",
                force |-> FALSE, e |-> e, wt |-> wt, res |-> res,
                gone |-> e = "sent" /\ wt = "exited"]
    /\ UNCHANGED <<schedVars, ctl, config, is_monitoring, kbd>>

\* The user answers Yes: line 617 asks for a forced termination.  A process
\* that did not exist at the first call does not exist now.
KillForced(e, wt) ==
    /\ proc.pc = "question"
    /\ proc.e = "no_such" => e = "no_such"
    /\ proc' = [pc |-> "result", force |-> TRUE, e |-> e, wt |-> wt,
                res |-> kill_process(TRUE, e, wt),
                gone |-> e = "sent" /\ wt = "exited"]
    /\ UNCHANGED <<schedVars, ctl, config, is_monitoring, kbd>>

\* The user answers No: line 619 shows the first result.
KillDeclined ==
    /\ proc.pc = "question"
    /\ proc' = [proc EXCEPT !.pc = "result"]
    /\ UNCHANGED <<schedVars, ctl, config, is_monitoring, kbd>>

\* Lines 619-620: the result dialog is closed and the table refreshed.
KillHandlerEnds ==
    /\ proc.pc = "result"
    /\ proc' = NoProc
    /\ UNCHANGED <<schedVars, ctl, config, is_monitoring, kbd>>

\* -------------------------------------------------------------------- Next
\* The scheduler on its own: any caller starts, stops and restarts any name
\* with a callback that returns or raises.  The controller's state is not
\* touched by these steps.
WorkerStep(t) ==
    \/ WorkerCheck(t)
    \/ WorkerCall(t)
    \/ CallbackReturn(t)
    \/ CallbackRaise(t)
    \/ WaitReturn(t)

CallerStep(c) ==
    \/ \E n \in Names, cb \in {"work"} : Start(c, n, cb)
    \/ \E n \in Names : Stop(c, n)
    \/ \E n \in Names, cb \in {"work"} : Restart(c, n, cb)
    \/ RestartStart(c)
    \/ StopAll(c)
    \/ StopAllNext(c)
    \/ JoinExit(c)
    \/ StopCheck(c)
    \/ \E n \in Names : IsThreadRunning(c, n)
    \/ GetActiveThreads(c)

Next ==
    \/ \E t \in Threads : WorkerStep(t)
    \/ \E c \in Callers : CallerStep(c)
    \/ \E c \in Callers : JoinTimeout(c)

Spec == Init /\ [][Next]_vars

\* The collection task: the controller's thread starts, stops and restarts
\* "system_monitor" with update_metrics as the callback, as start_monitoring
\* does (lines 227-231).

CycleWorkerStep(t) ==
    \/ WorkerCheck(t)
    \/ WorkerCall(t)
    \/ WaitReturn(t)
    \/ UmQueryOk(t)
    \/ \E g \in GroupSet : UmQueryFail(t, g)
    \/ UmStamp(t)
    \/ UmAppend(t)
    \/ \E raises \in BOOLEAN : UmNotify(t, raises)

CycleCallerStep(c) ==
    \/ Start(c, "system_monitor", "update_metrics")
    \/ Stop(c, "system_monitor")
    \/ Restart(c, "system_monitor", "update_metrics")
    \/ RestartStart(c)
    \/ StopAll(c)
    \/ StopAllNext(c)
    \/ JoinExit(c)
    \/ JoinTimeout(c)
    \/ StopCheck(c)
    \/ SetViewCallback(c)
    \/ GetMetricsHistory(c)
    \/ GetMetricsHistoryReturn(c)

CycleNext ==
    \/ \E t \in Threads : CycleWorkerStep(t)
    \/ CycleCallerStep(Controller)

CycleSpec == Init /\ [][CycleNext]_vars

\* A task whose callback raises on every invocation, each failing invocation
\* ending before a pending stop_thread's timeout: no callback returns
\* normally and no join times out.  The operating system schedules every
\* worker thread and every caller blocked in join.
RaisingWorkerStep(t) ==
    \/ WorkerCheck(t)
    \/ WorkerCall(t)
    \/ CallbackRaise(t)
    \/ WaitReturn(t)

RaisingCallerStep(c) ==
    \/ \E n \in Names : Start(c, n, "work")
    \/ \E n \in Names : Stop(c, n)
    \/ \E n \in Names : Restart(c, n, "work")
    \/ RestartStart(c)
    \/ StopAll(c)
    \/ StopAllNext(c)
    \/ JoinExit(c)

RaisingNext ==
    \/ \E t \in Threads : RaisingWorkerStep(t)
    \/ \E c \in Callers : RaisingCallerStep(c)

RaisingSpec ==
    /\ Init
    /\ [][RaisingNext]_vars
    /\ \A t \in Threads : WF_vars(RaisingWorkerStep(t))
    /\ \A c \in Callers : WF_vars(JoinExit(c))

\* The control surfaces on their own: the presentation layer makes one call
\* after another, the operating system deciding what each write does.
ControlNext ==
    \/ \E hw0 \in HwBefore, value \in PwmValues, w \in WriteOutcomes :
          SetPwm(hw0, value, w)
    \/ \E hw0 \in HwBefore, g \in GovernorArgs, cs \in {{}, Cpus},
          avail \in {{}, AvailableGovernors}, pk \in BOOLEAN :
          \E ok \in SUBSET cs, h \in PowerHelperOf(pk) :
            SetGovernor(hw0, g, cs, avail, ok, pk, h)
    \/ \E hw0 \in HwBefore, khz \in FreqArgs, cs \in {{}, Cpus},
          pk \in BOOLEAN :
          \E ok \in SUBSET cs, h \in PowerHelperOf(pk) :
            SetMaxFreq(hw0, khz, cs, ok, pk, h)
    \/ \E hw0 \in HwBefore, f \in ModeFiles, value \in ModeArgs,
          exists \in BOOLEAN, avail \in {{}, AvailableModes},
          w \in WriteOutcomes, pk \in BOOLEAN :
          \E h \in HelperOf(pk) :
            MsiSetMode(hw0, f, value, exists, avail, w, pk, h)
    \/ \E hw0 \in HwBefore, f \in SwitchFiles, exists \in BOOLEAN,
          w \in WriteOutcomes, pk \in BOOLEAN :
          \E h \in HelperOf(pk) : MsiSetSwitch(hw0, f, exists, w, pk, h)
    \/ \E hw0 \in HwBefore, start \in BOOLEAN, stop \in BOOLEAN,
          exists \in BOOLEAN, w1 \in WriteOutcomes, w2 \in WriteOutcomes,
          pk \in BOOLEAN :
          \E h \in HelperOf(pk) :
            SetBatteryThresholds(hw0, start, stop, exists, w1, w2, pk, h)
    \/ \E hw0 \in HwBefore, cfg \in ProfileCfgs \cup {NoProfile},
          cs \in {{}, Cpus}, w \in WriteOutcomes, pk \in BOOLEAN :
          \E ok \in SUBSET cs, h \in PowerHelperOf(pk) :
            ApplyProfile(hw0, cfg, cs, AvailableGovernors, ok, w, pk, h)
    \/ HandlerEnds

ControlSpec == Init /\ [][ControlNext]_vars

\* The start of the GUI program (gui_main.py lines 26-31), and any other
\* client of the config module: load_config() is called, config.json being
\* whatever it is at that time, and the controller is constructed.
StartupNext ==
    \/ \E file \in ConfigFiles : LoadConfig(file)
    \/ GuiConstruct

StartupSpec == Init /\ [][StartupNext]_vars

\* The window on its own: the user, the window's timers and the operating
\* system.
ViewNext ==
    \/ \E v \in Levels : KbdUserChanges(v)
    \/ \E exists \in BOOLEAN, w \in WriteOutcomes, pk \in BOOLEAN :
          \E h \in HelperOf(pk) : KbdTimerFires(exists, w, pk, h)
    \/ \E exists \in BOOLEAN, w \in WriteOutcomes, pk \in BOOLEAN :
          \E h \in HelperOf(pk) : KbdApplyClicked(exists, w, pk, h)
    \/ \E available \in BOOLEAN, cur \in Levels \cup {-1} :
          KbdRefresh(available, cur)
    \/ \E e \in KillOutcomes, wt \in WaitOutcomes : KillSelected(e, wt)
    \/ \E e \in KillOutcomes, wt \in WaitOutcomes : KillForced(e, wt)
    \/ KillDeclined
    \/ KillHandlerEnds

ViewSpec == Init /\ [][ViewNext]_vars

\* The controller's own interface, as main.py uses it: the main thread
\* calls start_monitoring, stop_monitoring and cleanup, a signal handler
\* may interrupt it at any point and runs to its end before the interrupted
\* code goes on, and the task's worker runs update_metrics, every query
\* succeeding.
\* The main thread is executing frame c: the handler's, or the program's
\* when no signal is being handled.
Runs(c) == c = HandlerFrame \/ caller[HandlerFrame].pc = "idle"

MonitorFrameStep(c) ==
    \/ Runs(c) /\ c = Controller /\ StartMonitoring(c)
    \/ Runs(c) /\ c = Controller /\ StartMonitoringSet(c)
    \/ Runs(c) /\ c = Controller /\ StopMonitoring(c)
    \/ Runs(c) /\ c = Controller /\ Cleanup(c)
    \/ Runs(c) /\ StopMonitoringClear(c)
    \/ Runs(c) /\ CleanupStopMonitoring(c)
    \/ Runs(c) /\ CleanupStopAll(c)
    \/ Runs(c) /\ StopAllNext(c)
    \/ Runs(c) /\ JoinExit(c)
    \/ Runs(c) /\ JoinTimeout(c)
    \/ Runs(c) /\ StopCheck(c)

MonitorWorkerStep(t) ==
    \/ WorkerCheck(t)
    \/ WorkerCall(t)
    \/ WaitReturn(t)
    \/ UmQueryOk(t)
    \/ UmStamp(t)
    \/ UmAppend(t)
    \/ UmNotify(t, FALSE)

MonitorNext ==
    \/ \E c \in Callers : MonitorFrameStep(c)
    \/ SignalHandler
    \/ SysExit
    \/ \E t \in Threads : MonitorWorkerStep(t)

MonitorSpec == Init /\ [][MonitorNext]_vars

\* ------------------------------------------------------------------ claims
AliveOf(n) == {t \in Threads : tname[t] = n /\ IsAlive(t)}

\* C1: at most one thread is alive per task name, and a start for a name
\* whose task is alive returns False, creates no thread and changes neither
\* the registered thread, its stop event nor any worker.
C1_OneTaskPerName ==
    /\ [](\A n \in Names : Cardinality(AliveOf(n)) <= 1)
    /\ [][ret'.op = "start" /\ AliveOf(ret'.name) # {}
            => /\ ret'.val = FALSE
               /\ UNCHANGED <<threads, stop_events, nthreads, tpc, event>>
               /\ threads[ret'.name] \in AliveOf(ret'.name)
               /\ stop_events[ret'.name] = threads[ret'.name]]_vars

\* A start refused while the running task, already signalled by a stop that
\* timed out, is still inside its callback.
C1_Witness ==
    /\ ret.op = "start" /\ ~ret.val
    /\ event[ret.thr] /\ InCallback(ret.thr)

\* C2: the history never holds more than its capacity, the capacity is the
\* one it was constructed with, and an append to a full history evicts
\* exactly the oldest entry.
C2_HistoryBounded ==
    /\ [](Len(metrics_history) <= maxlen /\ maxlen = MAX_HISTORY_ENTRIES)
    /\ [][/\ maxlen' = maxlen
          /\ (metrics_history' # metrics_history /\ Len(metrics_history) = maxlen)
               => /\ Len(metrics_history') = maxlen
                  /\ SubSeq(metrics_history', 1, maxlen - 1) = Tail(metrics_history)
                  /\ metrics_history'[maxlen] = appended'[Len(appended')]
                  /\ Len(appended') = Len(appended) + 1]_vars

\* More cycles have appended than the history can hold, and it is full.
C2_Witness ==
    /\ Len(appended) > maxlen
    /\ Len(metrics_history) = maxlen

\* The last k items of a sequence.
LastOf(q, k) == SubSeq(q, Len(q) - k + 1, Len(q))

\* C3: after n appending cycles get_metrics_history() returns the last
\* min(n, capacity) appended entries, oldest first.
C3_SnapshotIsLastEntries ==
    (ret.op = "get_metrics_history" /\ ret.val)
        => ret.list = LastOf(appended, IF Len(appended) < maxlen
                                       THEN Len(appended) ELSE maxlen)

\* A snapshot taken after entries have been evicted.
C3_Witness ==
    /\ ret.op = "get_metrics_history" /\ ret.val
    /\ Len(appended) > maxlen
    /\ Len(ret.list) = maxlen

InCallbackOf(n) == {t \in Threads : tname[t] = n /\ InCallback(t)}

\* C4: for one task name at most one callback invocation is in progress at
\* any time, whatever starts, stops (timed out or not) and restarts happen.
C4_NoOverlap == \A n \in Names : Cardinality(InCallbackOf(n)) <= 1

\* A restarted task is inside its callback after an earlier thread of the
\* same name, stopped by a stop that timed out, has ended.
C4_Witness ==
    \E t1, t2 \in Threads :
        /\ t1 < t2 /\ tname[t1] = tname[t2]
        /\ tpc[t1] = "done" /\ InCallback(t2)
        /\ \E c \in Callers : caller[c].pc = "joined" /\ caller[c].thr = t2

\* C5: a stop_thread that signals a task in its interval wait ends the wait:
\* the task does not enter the callback again, and stop_thread returns True
\* exactly if the task has exited by its final liveness check.
C5_StopInterruptsWait ==
    /\ \A c \in Callers :
          (caller[c].pc \in {"join", "joined"} /\ caller[c].sig = "wait")
             => tpc[caller[c].thr] \in {"wait", "check", "done"}
    /\ (ret.op = "stop" /\ ret.sig = "wait")
          => /\ tpc[ret.thr] \in {"wait", "check", "done"}
             /\ ret.val = (tpc[ret.thr] = "done")
             /\ ~ret.timedout => ret.val

\* stop_thread signalled a waiting task and returned True without its join
\* timing out.
C5_Witness ==
    /\ ret.op = "stop" /\ ret.sig = "wait" /\ ret.val /\ ~ret.timedout
    /\ tpc[ret.thr] = "done"

\* C6: stop_thread returns False for a name that is not registered; for a
\* registered name it returns True exactly when the thread is not alive as it
\* returns, and False only after its join timed out.
C6_StopResult ==
    ret.op = "stop"
        => /\ threads[ret.name] = ret.thr
           /\ ret.thr = 0 => ~ret.val
           /\ ret.thr # 0 => (ret.val <=> ~IsAlive(ret.thr))
           /\ (ret.thr # 0 /\ ~ret.val) => ret.timedout

\* stop_thread returned False while the task is still inside its callback.
C6_Witness ==
    /\ ret.op = "stop" /\ ~ret.val /\ ret.thr # 0
    /\ InCallback(ret.thr)

\* C7: a callback invocation that raises leaves the worker alive at its
\* interval wait; from the wait the worker goes back to the loop condition
\* and, unless its stop event is set, into the callback again; a worker ends
\* only with its stop event set.
C7_RaiseKeepsLoop ==
    /\ []((ret.op = "callback" /\ ~ret.val) => tpc[ret.thr] = "wait")
    /\ [][\A t \in Threads :
            /\ (tpc[t] = "wait" /\ tpc'[t] # "wait") => tpc'[t] = "check"
            /\ (tpc[t] = "check" /\ tpc'[t] # "check" /\ ~event[t])
                  => tpc'[t] = "call"
            /\ (tpc[t] = "call" /\ tpc'[t] # "call") => InCallback(t)'
            /\ (IsAlive(t) /\ ~IsAlive(t)') => event[t]]_vars

\* A callback invocation has just raised and no stop has been signalled.
C7_Witness ==
    /\ ret.op = "callback" /\ ~ret.val
    /\ ~event[ret.thr]

\* C8: with a callback that raises on every invocation, a stop_thread that
\* has signalled the task and waits in join eventually returns True, the
\* task having exited.
C8_StopRaisingTask ==
    \A c \in Callers :
        (caller[c].pc = "join")
            ~> (ret.op = "stop" /\ ret.by = c /\ ret.val /\ ~IsAlive(ret.thr))

\* stop_thread returned True for a task it had signalled inside a raising
\* callback invocation.
C8_Witness ==
    /\ ret.op = "stop" /\ ret.val
    /\ ret.sig = "callback"
    /\ tpc[ret.thr] = "done"

\* C9: a started worker begins at the loop condition with its stop event
\* clear, so that its first step is a callback invocation; it reaches the
\* interval wait only from a callback invocation, and from the wait it
\* returns to the loop condition, which leads into the callback again unless
\* the stop event is set.
C9_ImmediateThenPeriodic ==
    /\ []((ret.op = "start" /\ ret.val)
             => /\ tpc[ret.thr] = "check" /\ ~event[ret.thr]
                /\ threads[ret.name] = ret.thr)
    /\ [][\A t \in Threads :
            /\ (tpc[t] # "wait" /\ tpc'[t] = "wait") => InCallback(t)
            /\ (tpc[t] = "check" /\ tpc'[t] # "check")
                  => tpc'[t] = (IF event[t] THEN "done" ELSE "call")
            /\ (tpc[t] = "call" /\ tpc'[t] # "call") => InCallback(t)'
            /\ (tpc[t] = "wait" /\ tpc'[t] # "wait") => tpc'[t] = "check"]_vars

\* The only worker ever started, never signalled, is in its second callback
\* invocation, one interval wait after the first.
C9_Witness ==
    /\ nthreads = 1 /\ ~event[1]
    /\ InCallback(1)
    /\ cycle = 2

\* C10: a cycle in which the query of one metric group fails still appends
\* and delivers a reading, valid in the other groups and empty in that one.
C10_PartialReadingDelivered ==
    (cyc.done /\ cyc.failed # "none")
        => /\ cyc.appended /\ cyc.notified
           /\ current_metrics.id = cyc.id
           /\ \A g \in GroupSet :
                 current_metrics[g] = (IF g = cyc.failed THEN "empty" ELSE "valid")

\* C11: update_metrics never lets an exception out: whether the query or the
\* notifier raised, the callback invocation returns normally and leaves the
\* worker alive at its interval wait, from which it goes back to the loop
\* condition as after a cycle without failure.
C11_CycleContainsFailures ==
    /\ []((ret.op = "callback" /\ tcb[ret.thr] = "update_metrics")
             => (ret.val /\ tpc[ret.thr] = "wait"))
    /\ [][\A t \in Threads :
            /\ (tcb[t] = "update_metrics" /\ InCallback(t) /\ ~InCallback(t)')
                  => /\ ret'.op = "callback" /\ ret'.thr = t /\ ret'.val
                     /\ tpc'[t] = "wait"
            /\ (tpc[t] = "wait" /\ tpc'[t] # "wait") => tpc'[t] = "check"]_vars

\* The notifier has just raised in the second cycle, which the worker ran
\* after a first cycle whose query raised; update_metrics returns normally.
C11_Witness ==
    /\ ret.op = "callback" /\ ret.exc = "notify" /\ ret.val
    /\ cycle = 2 /\ Len(appended) = 1

\* C12: in a cycle the append follows the query and the notification follows
\* the append: a reading is notified only once its entry is the last one
\* appended, the i-th notification is for the i-th appended entry, and there
\* are never more notifications than appends.
C12_QueryAppendNotify ==
    /\ [](/\ Len(notified) <= Len(appended)
          /\ \A i \in 1..Len(notified) :
                notified[i].id = appended[i].timestamp)
    /\ [][/\ appended' # appended
               => /\ current_metrics.id = cyc.id /\ ~cyc.notified
                  /\ appended' = Append(appended, Entry(current_metrics))
          /\ notified' # notified
               => /\ current_metrics.id = cyc.id /\ cyc.appended
                  /\ appended # <<>>
                  /\ appended[Len(appended)].timestamp = current_metrics.id]_vars

\* The third reading has been appended and is about to be notified, two
\* notifications having been made.
C12_Witness ==
    /\ Len(notified) = 2 /\ Len(appended) = 3
    /\ \E t \in Threads : tpc[t] = "um_notify"

C14_StopDoesNotInterrupt ==
    [][\A t \in Threads :
         /\ (event'[t] # event[t]) => (event'[t] /\ tpc'[t] = tpc[t])
         /\ InCallback(t)
               => \/ InCallback(t)'
                  \/ tpc'[t] = "wait" /\ ret'.op = "callback" /\ ret'.thr = t
         /\ (tpc[t] = "wait" /\ tpc'[t] # "wait") => tpc'[t] = "check"
         /\ (IsAlive(t) /\ ~IsAlive(t)') => (tpc[t] = "check" /\ event[t])]_vars

\* A callback invocation, in progress when stop_thread signalled its task,
\* has just run to its end while stop_thread waits in join.
C14_Witness ==
    /\ ret.op = "callback" /\ event[ret.thr]
    /\ \E c \in Callers : /\ caller[c].pc = "join"
                          /\ caller[c].thr = ret.thr
                          /\ caller[c].sig = "callback"

\* C15 as stated: when stop_all_threads returns, every thread created before
\* the call (so every task alive at the call) has its stop event set and,
\* if no join of the call timed out, no registered task is alive.
C15_NoRegisteredAlive ==
    ret.all
        => /\ \A t \in 1..ret.n0 : event[t]
           /\ ~ret.anyto
                 => \A n \in Names : ~(threads[n] # 0 /\ IsAlive(threads[n]))

\* C15, amended: when stop_all_threads returns, every thread created before
\* the call (so every task alive at the call) has its stop event set and,
\* if no join of the call timed out, none of them is alive.
C15_AliveAtCallStopped ==
    ret.all
        => \A t \in 1..ret.n0 : /\ event[t]
                                /\ ~ret.anyto => ~IsAlive(t)

\* stop_all_threads returns, no join having timed out, after stopping two
\* tasks of different names, the last of which it signalled itself, while a
\* third thread, started by the other caller during the call, is alive.
C15_Witness ==
    /\ ret.all /\ ~ret.anyto /\ ret.n0 = 2
    /\ tname[1] # tname[2]
    /\ ret.op = "stop" /\ ret.sig # "none"
    /\ nthreads = 3 /\ IsAlive(3)

\* C16: a caller outside every call can complete is_thread_running and
\* get_active_threads at once, whatever the other caller and the workers are
\* doing (start_data_collection_thread takes the same lock as they do).
C16_QueriesNeverWait ==
    \A c \in Callers :
        caller[c].pc = "idle"
            => /\ \A n \in Names : ENABLED IsThreadRunning(c, n)
               /\ ENABLED GetActiveThreads(c)

\* A step of caller c inside the ThreadManager: its position or locals
\* change, or one of its calls returns.
ManagerStep(c) == caller'[c] # caller[c] \/ ret'.by = c

\* C17: every step a caller makes inside the ThreadManager is made with the
\* lock free for it to take or already held by it, never while another
\* caller holds it.
C17_RegistryUnderLock ==
    [][\A c \in Callers : ManagerStep(c) => lock \in {"free", c}]_vars

\* C18: the current reading keeps every field for as long as it is the
\* current reading, an appended entry never changes, and the history holds
\* appended entries only.
C18_ReadingImmutable ==
    /\ [][/\ (current_metrics.id # 0 /\ current_metrics'.id = current_metrics.id)
               => current_metrics' = current_metrics
          /\ \A i \in 1..Len(appended) : appended'[i] = appended[i]]_vars
    /\ [](\A i \in 1..Len(metrics_history) :
             \E j \in 1..Len(appended) : metrics_history[i] = appended[j])

\* C19: a reading is presented at most once, and exactly once by the end of
\* a cycle whose query succeeded: by the view callback if one is registered
\* when the reading is notified, else by the console dump; nothing is
\* presented before a reading has been collected.
C19_OnePresentation ==
    /\ [](/\ \A i, j \in 1..Len(notified) :
                notified[i].id = notified[j].id => i = j
          /\ \A i \in 1..Len(notified) :
                notified[i].id # 0 /\ notified[i].id <= current_metrics.id
          /\ (cyc.done /\ cyc.failed = "none")
                => \E i \in 1..Len(notified) : notified[i].id = cyc.id)
    /\ [][notified' # notified
            => notified' = Append(notified,
                                  [id |-> current_metrics.id,
                                   via |-> IF view_callback THEN "view"
                                           ELSE "console"])]_vars

\* The first reading went to the console, the view callback was registered,
\* and the second reading went to the view; the second cycle has ended.
C19_Witness ==
    /\ Len(notified) = 2 /\ cyc.done /\ cyc.id = 2
    /\ notified[1].via = "console" /\ notified[2].via = "view"

\* C20: every control-surface call returns a result with a boolean success
\* and a message; none ends with an exception.
C20_ResultNeverRaises ==
    ctl.op # "none"
        => /\ ctl.res.kind = "returned"
           /\ ctl.res.success \in BOOLEAN

C22_CapacityFromConfig ==
    config.gui # "none"
        => /\ config.gui = "constructed"
           /\ maxlen = config.result.history_duration
                          \div config.result.update_interval

\* C24: a callback invocation begins only from the position after the loop
\* condition, a worker whose stop event is set never arrives there and a set
\* event stays set, so that after the signal at most one invocation begins
\* (the one of a worker signalled between its loop condition and the call);
\* when stop_thread returns True the thread has ended, and a thread that has
\* ended takes no further step.
C24_AtMostOneMoreInvocation ==
    /\ [][\A t \in Threads :
            /\ (~InCallback(t) /\ InCallback(t)') => tpc[t] = "call"
            /\ (event[t] /\ tpc[t] # "call") => tpc'[t] # "call"
            /\ (event[t] /\ tpc[t] # "unborn") => event'[t]
            /\ tpc[t] = "done" => tpc'[t] = "done"]_vars
    /\ []((ret.op = "stop" /\ ret.val /\ ret.thr # 0)
             => tpc[ret.thr] = "done")

\* A worker that stop_thread signalled after its loop condition had passed
\* is inside the one further invocation, stop_thread waiting in join.
C24_Witness ==
    \E c \in Callers :
        /\ caller[c].pc = "join" /\ caller[c].sig = "call"
        /\ InCallback(caller[c].thr)

\* C27: set_governor returns success True only when the scaling governor of
\* every CPU holds the requested value afterwards, whether the CPUs were
\* written directly or by the pkexec helper; and a governor that is not in
\* the non-empty list of available governors gets a failure result and no
\* CPU is written.
C27_SuccessMeansEveryCpu ==
    ctl.op = "set_governor" =>
        /\ (ctl.res.kind = "returned" /\ ctl.res.success)
              => \A c \in Cpus : ctl.hw.gov[c] = ctl.arg[1]
        /\ (ctl.arg[1] # "" /\ ctl.arg[2] # {} /\ ctl.arg[1] \notin ctl.arg[2])
              => /\ ctl.res.kind = "returned"
                 /\ ~ctl.res.success
                 /\ ctl.hw = ctl.pre

\* C30: every option a MsiEcManager write passes to the privileged helper
\* (permission denied, use_pkexec on) is one the helper script declares.
C30_HelperAcceptsOption ==
    \A i \in 1..Len(ctl.opts) : ctl.opts[i] \in HelperOptions

\* C29: what load_config returns is the built-in defaults overridden,
\* recursively for nested dicts, by config.json, and the built-in defaults
\* themselves when the file is absent or cannot be loaded, whatever calls
\* were made before; and DEFAULT_CONFIG holds the built-in values after
\* every call.
C29_LoadIsPure ==
    config.loads > 0 =>
        /\ config.result = IF config.file.kind = "dict"
                           THEN DeepUpdate(BuiltIn, config.file.d)
                           ELSE BuiltIn
        /\ config.defaults = BuiltIn

\* C26: kill_process never raises; it returns success True only if the
\* process ended within the wait, graceful or forced; and for a process that
\* does not exist or may not be signalled it returns success False with a
\* message.
C26_SuccessMeansTerminated ==
    proc.pc # "none" =>
        /\ proc.res.kind = "returned"
        /\ proc.res.success => proc.gone
        /\ proc.e \in {"no_such", "denied"}
              => ~proc.res.success /\ proc.res.message # ""

C23_FlagMatchesThread ==
    (\A c \in Callers : caller[c].pc = "idle")
        => (is_monitoring <=> AlreadyRunning("system_monitor"))

\* C25: cleanup is total and idempotent.  No cleanup waits for a lock held
\* by the code it interrupted; when cleanup returns and no join of its
\* stop_all_threads timed out, no thread is alive and is_monitoring() is
\* False; and a cleanup entered when no thread is alive and the flag is
\* clear changes neither the flag, a thread, the registry nor the history.
C25_CleanupTotalIdempotent ==
    /\ [](\A c \in Callers :
            (/\ caller[c].outer \in {"cleanup", "signal_handler"}
             /\ \/ caller[c].pc = "stop_all"
                \/ caller[c].pc = "cleanup" /\ is_monitoring)
                => lock \in {"free", c})
    /\ []((ret.all /\ ret.outer \in {"cleanup", "signal_handler"}
              /\ ~ret.anyto)
             => /\ \A t \in Threads : ~IsAlive(t)
                /\ ~is_monitoring)
    /\ [][(/\ \E c \in Callers :
                caller[c].outer \in {"cleanup", "signal_handler"}
           /\ \A t \in Threads : ~IsAlive(t)
           /\ ~is_monitoring)
            => UNCHANGED <<is_monitoring, threads, stop_events, korder,
                           nthreads, tpc, event, acVars>>]_vars

=========================================================================
